---- MODULE Spec2Model ----
(***************************************************************************)
(* Model of tsflex.features.FeatureCollection: the registry of feature     *)
(* descriptors (add, get_required_series) and the calculate call, which    *)
(* resolves flat task indices through the process-wide get_stroll_func and *)
(* runs them sequentially or on a pathos ProcessPool (uimap).              *)
(***************************************************************************)
EXTENDS Integers, Sequences, FiniteSets, TLC

None == "None"

(* ---------------- bounds of the model ---------------- *)
MaxTasks == 3       \* descriptors a registry may hold
MaxItems == 2       \* length of a list handed to add
NumSamples == 4     \* samples of every input series
CpuCount == 2       \* os.cpu_count(), the pool size when n_jobs is unset
MaxWindow == 3      \* largest window and stride the segmenter is tried with
MaxChunks == 3      \* length of the chunk list of process_chunks_multithreaded

(* ---------------- the universe of inputs ---------------- *)
SeriesNames == {"a", "b"}

Functions == {"f", "g"}

\* (series_name, window, stride) combinations the descriptors are drawn from
DescriptorKeys ==
  { [series_name |-> <<"a">>, window |-> 2, stride |-> 1],
    [series_name |-> <<"a", "b">>, window |-> 3, stride |-> 1] }

FeatureDescriptor(series_name, window, stride, function) ==
  [type |-> "FeatureDescriptor", series_name |-> series_name,
   window |-> window, stride |-> stride, function |-> function]

FeatureDescriptors ==
  { FeatureDescriptor(k.series_name, k.window, k.stride, f) :
      k \in DescriptorKeys, f \in Functions }

\* a MultipleFeatureDescriptors holds the product functions x series x
\* windows x strides as a list of FeatureDescriptor
MultipleFeatureDescriptors(functions, key) ==
  [type |-> "MultipleFeatureDescriptors",
   feature_descriptions |->
     [i \in 1..Len(functions) |->
        FeatureDescriptor(key.series_name, key.window, key.stride, functions[i])]]

MFDs == { MultipleFeatureDescriptors(<<"f", "g">>, k) : k \in DescriptorKeys }

\* objects add does not support: a bare function, a number
OtherTypes == {"function", "int"}

OtherObjects == { [type |-> t] : t \in OtherTypes }

(* ---------------- generic helpers ---------------- *)
Range(s) == { s[i] : i \in 1..Len(s) }

RECURSIVE SumSeq(_)
SumSeq(s) == IF s = <<>> THEN 0 ELSE Head(s) + SumSeq(Tail(s))

\* tsflex.utils.data.flatten: one level of nesting removed
RECURSIVE flatten(_)
flatten(ll) == IF ll = <<>> THEN <<>> ELSE Head(ll) \o flatten(Tail(ll))

\* tsflex.utils.data.to_list: a list is kept, anything else is wrapped
to_list(x) == IF x.type = "list" THEN x.items ELSE <<x>>

(* ---------------- the registry: an insertion-ordered dict ---------------- *)
\* _feature_desc_dict is a sequence of entries [k |-> key, v |-> list]
DictKeys(d) == [i \in 1..Len(d) |-> d[i].k]

\* a variant that yields the values last key first
DictValuesReversed(d) == [i \in 1..Len(d) |-> d[Len(d) + 1 - i].v]

DictValues(d) == [i \in 1..Len(d) |-> d[i].v]

DictHas(d, key) == \E i \in 1..Len(d) : d[i].k = key

DictGet(d, key) == d[CHOOSE i \in 1..Len(d) : d[i].k = key].v

\* a variant that leaves the stride out of the key
_get_collection_key_no_stride(feature) ==
  <<feature.series_name, feature.window>>

_get_collection_key(feature) ==
  <<feature.series_name, feature.window, feature.stride>>

\* a variant that puts the descriptor at the front of the list of its key
_add_feature_front(self, feature) ==
  LET series_win_stride_key == _get_collection_key(feature) IN
  IF DictHas(self, series_win_stride_key)
    THEN [i \in 1..Len(self) |->
            IF self[i].k = series_win_stride_key
              THEN [k |-> self[i].k, v |-> <<feature>> \o self[i].v]
              ELSE self[i]]
    ELSE Append(self, [k |-> series_win_stride_key, v |-> <<feature>>])

\* a variant that skips a descriptor the list of its key already holds
_add_feature_dedup(self, feature) ==
  LET series_win_stride_key == _get_collection_key(feature) IN
  IF DictHas(self, series_win_stride_key)
    THEN [i \in 1..Len(self) |->
            IF self[i].k = series_win_stride_key /\ feature \notin Range(self[i].v)
              THEN [k |-> self[i].k, v |-> Append(self[i].v, feature)]
              ELSE self[i]]
    ELSE Append(self, [k |-> series_win_stride_key, v |-> <<feature>>])

_add_feature(self, feature) ==
  LET series_win_stride_key == _get_collection_key(feature) IN
  IF DictHas(self, series_win_stride_key)
    THEN [i \in 1..Len(self) |->
            IF self[i].k = series_win_stride_key
              THEN [k |-> self[i].k, v |-> Append(self[i].v, feature)]
              ELSE self[i]]
    ELSE Append(self, [k |-> series_win_stride_key, v |-> <<feature>>])

SupportedTypes ==
  {"MultipleFeatureDescriptors", "FeatureDescriptor", "FeatureCollection"}

\* a variant that passes over an unsupported item instead of raising
RECURSIVE add_skipping(_, _)
add_skipping(self, features) ==
  IF features = <<>> THEN [dict |-> self, exc |-> None]
  ELSE
    LET feature == Head(features)
        r == CASE feature.type = "MultipleFeatureDescriptors" ->
                    add_skipping(self, feature.feature_descriptions)
               [] feature.type = "FeatureDescriptor" ->
                    [dict |-> _add_feature(self, feature), exc |-> None]
               [] feature.type = "FeatureCollection" ->
                    add_skipping(self, flatten(DictValues(feature._feature_desc_dict)))
               [] OTHER -> [dict |-> self, exc |-> None]
    IN add_skipping(r.dict, Tail(features))

\* add, on the list to_list made of its argument: the registry it leaves and
\* the exception it raises (None when it returns)
RECURSIVE add(_, _)
add(self, features) ==
  IF features = <<>> THEN [dict |-> self, exc |-> None]
  ELSE
    LET feature == Head(features)
        r == CASE feature.type = "MultipleFeatureDescriptors" ->
                    add(self, feature.feature_descriptions)
               [] feature.type = "FeatureDescriptor" ->
                    [dict |-> _add_feature(self, feature), exc |-> None]
               [] feature.type = "FeatureCollection" ->
                    add(self, flatten(DictValues(feature._feature_desc_dict)))
               [] OTHER -> [dict |-> self, exc |-> "TypeError"]
    IN IF r.exc # None THEN r ELSE add(r.dict, Tail(features))

\* FeatureCollection(feature_descriptors): an empty registry, then add
FeatureCollection(feature_descriptors) ==
  [type |-> "FeatureCollection",
   _feature_desc_dict |-> add(<<>>, feature_descriptors).dict]

\* a variant that reads only the first name of every series-key tuple
get_required_series_first(self) ==
  LET names == { self[i].k[1][1] : i \in 1..Len(self) }
  IN CHOOSE l \in [1..Cardinality(names) -> names] : Range(l) = names

get_required_series(self) ==
  LET names == Range(flatten([i \in 1..Len(self) |-> self[i].k[1]]))
  IN CHOOSE l \in [1..Cardinality(names) -> names] : Range(l) = names

_get_stroll_feat_length(self) ==
  SumSeq([i \in 1..Len(self) |-> Len(self[i].v)])

(* ---------------- input series ---------------- *)
\* timestamps are counted in half sample periods: sample i lies at 2*(i-1)
SeriesIndex(kind) ==
  [i \in 1..NumSamples |->
     CASE kind = "dup" -> IF i = 1 THEN 0 ELSE 2 * (i - 2)
       [] kind = "unsorted" -> IF i = 1 THEN 2 ELSE IF i = 2 THEN 0 ELSE 2 * (i - 1)
       [] kind = "gaps" -> IF i <= 2 THEN 2 * (i - 1) ELSE 2 * i
       [] OTHER -> 2 * (i - 1)]

Series(name, kind) ==
  [name |-> name, index |-> SeriesIndex(kind),
   is_datetime |-> (kind # "rangeindex")]

\* what to_series_list(data) yields for the inputs that are tried
DataChoices ==
  { <<Series("a", "strict"), Series("b", "strict")>>,
    <<Series("a", "dup"), Series("b", "strict")>>,
    <<Series("a", "strict"), Series("b", "unsorted")>>,
    <<Series("a", "rangeindex"), Series("b", "strict")>>,
    <<Series("a", "strict")>> }

\* pandas Index.is_monotonic_increasing: equal neighbours are accepted
is_monotonic_increasing(index) ==
  \A i \in 1..(Len(index) - 1) : index[i] <= index[i + 1]

IsStrictlyIncreasing(index) ==
  \A i \in 1..(Len(index) - 1) : index[i] < index[i + 1]

\* the loop of calculate over to_series_list(data): the two assertions, then
\* the series is kept when its name is required
\* a variant that keeps every series that passes the assertions
RECURSIVE BuildSeriesDictAll(_, _, _)
BuildSeriesDictAll(self, series_list, series_dict) ==
  IF series_list = <<>> THEN [exc |-> None, series_dict |-> series_dict]
  ELSE
    LET s == Head(series_list) IN
    IF ~s.is_datetime \/ ~is_monotonic_increasing(s.index)
      THEN [exc |-> "AssertionError", series_dict |-> series_dict]
    ELSE BuildSeriesDictAll(self, Tail(series_list), (s.name :> s) @@ series_dict)

RECURSIVE BuildSeriesDict(_, _, _)
BuildSeriesDict(self, series_list, series_dict) ==
  IF series_list = <<>> THEN [exc |-> None, series_dict |-> series_dict]
  ELSE
    LET s == Head(series_list) IN
    IF ~s.is_datetime THEN [exc |-> "AssertionError", series_dict |-> series_dict]
    ELSE IF ~is_monotonic_increasing(s.index)
      THEN [exc |-> "AssertionError", series_dict |-> series_dict]
    ELSE IF s.name \in Range(get_required_series(self))
      THEN BuildSeriesDict(self, Tail(series_list), (s.name :> s) @@ series_dict)
    ELSE BuildSeriesDict(self, Tail(series_list), series_dict)

(* ---------------- StridedRolling ---------------- *)
StridedRolling(data, window, stride, window_idx, approve_sparsity) ==
  [data |-> data, window |-> window, stride |-> stride,
   window_idx |-> window_idx, approve_sparsity |-> approve_sparsity]

\* a variant that counts every window that fits in n samples
NumWindowsFitting(n, window, stride) ==
  IF n < window THEN 0 ELSE ((n - window) \div stride) + 1

\* number of windows of a result over n samples: the length the tests expect,
\* (int(len(data) / (1 / freq)) - window_s) // stride_s
NumWindows(n, window, stride) ==
  IF n < window THEN 0 ELSE (n - window) \div stride

\* offset of the reported timestamp from the window's first sample
WindowOffset(window, window_idx) ==
  CASE window_idx = "begin" -> 0
    [] window_idx = "middle" -> window
    [] OTHER -> 2 * window

\* stroll.apply_func(function): one table, a row per window
apply_func(stroll, series_name, function) ==
  LET index == stroll.data[1].index
      nwin == NumWindows(Len(index), stroll.window, stroll.stride)
  IN [series_name |-> series_name, function |-> function,
      window |-> stroll.window, stride |-> stroll.stride,
      index |-> [w \in 1..nwin |->
                   index[1 + (w - 1) * stroll.stride]
                     + WindowOffset(stroll.window, stroll.window_idx)]]

\* the nominal sampling period: the most frequent difference of neighbours
NominalPeriod(index) ==
  LET Deltas == { index[i + 1] - index[i] : i \in 1..(Len(index) - 1) }
      Count(d) == Cardinality({ i \in 1..(Len(index) - 1) :
                                 index[i + 1] - index[i] = d })
  IN CHOOSE d \in Deltas : \A e \in Deltas : Count(d) >= Count(e)

\* samples are missing: some neighbours are further apart than the period
HasGaps(index) ==
  /\ Len(index) >= 2
  /\ \E i \in 1..(Len(index) - 1) : index[i + 1] - index[i] > NominalPeriod(index)

\* the construction of a StridedRolling warns about gaps in its series unless
\* sparsity is approved
sparsity_warning(stroll) ==
  /\ ~stroll.approve_sparsity
  /\ \E j \in 1..Len(stroll.data) : HasGaps(stroll.data[j].index)

\* functions that raise when they are applied to a window: a function with
\* several outputs that is not wrapped, or wrapped with too few output names
RaisingFunctions == {"boom"}

\* stroll.apply_func(function) raises what the function raises
apply_raises(stroll, function) ==
  /\ function \in RaisingFunctions
  /\ NumWindows(Len(stroll.data[1].index), stroll.window, stroll.stride) > 0

(* ---------------- flat index resolution ---------------- *)
\* np.cumsum
cumsum(l) == [i \in 1..Len(l) |-> SumSeq(SubSeq(l, 1, i))]

\* np.searchsorted(a, v, 'left') on a sorted array
searchsorted_left(a, v) == Cardinality({ i \in 1..Len(a) : a[i] < v })

\* np.searchsorted(a, v, 'right') on a sorted array: a 0-based position
searchsorted_right(a, v) == Cardinality({ i \in 1..Len(a) : a[i] <= v })

\* Python list indexing with a 0-based, possibly negative index
PyInRange(l, i) == (i < Len(l)) /\ (i >= 0 - Len(l))

PyIndex(l, i) == IF i >= 0 THEN l[i + 1] ELSE l[Len(l) + i + 1]

\* a variant that builds every StridedRolling with the default window_idx
_stroll_feat_generator_end(self, series_dict, window_idx, approve_sparsity) ==
  LET keys_wins_strides == DictKeys(self)
      lengths == cumsum([i \in 1..Len(keys_wins_strides) |->
                           Len(DictGet(self, keys_wins_strides[i]))])
  IN [keys_wins_strides |-> keys_wins_strides, lengths |-> lengths,
      series_dict |-> series_dict, window_idx |-> "end",
      approve_sparsity |-> approve_sparsity]

\* the closure _stroll_feat_generator returns: the captured locals
_stroll_feat_generator(self, series_dict, window_idx, approve_sparsity) ==
  LET keys_wins_strides == DictKeys(self)
      lengths == cumsum([i \in 1..Len(keys_wins_strides) |->
                           Len(DictGet(self, keys_wins_strides[i]))])
  IN [keys_wins_strides |-> keys_wins_strides, lengths |-> lengths,
      series_dict |-> series_dict, window_idx |-> window_idx,
      approve_sparsity |-> approve_sparsity]

\* a variant that looks up the first series of the key only
get_stroll_function_first(c, self, idx) ==
  LET key_idx == searchsorted_right(c.lengths, idx) IN
  IF key_idx >= Len(c.keys_wins_strides)
    THEN [exc |-> "IndexError", built |-> FALSE]
  ELSE
    LET kws == c.keys_wins_strides[key_idx + 1]
        key == kws[1]
    IN
    IF key[1] \notin DOMAIN c.series_dict
      THEN [exc |-> "KeyError", built |-> FALSE, key |-> kws]
    ELSE
      [exc |-> None, built |-> TRUE, key |-> kws, key_idx |-> key_idx,
       stroll |-> StridedRolling(<<c.series_dict[key[1]]>>,
                                 kws[2], kws[3], c.window_idx, c.approve_sparsity),
       feature |-> PyIndex(DictGet(self, kws), idx - c.lengths[key_idx + 1])]

\* get_stroll_function(idx) of the closure c; self is the registry the
\* closure reads at call time. built tells whether a StridedRolling was made.
get_stroll_function(c, self, idx) ==
  LET key_idx == searchsorted_right(c.lengths, idx) IN
  IF key_idx >= Len(c.keys_wins_strides)
    THEN [exc |-> "IndexError", built |-> FALSE]
  ELSE
    LET kws == c.keys_wins_strides[key_idx + 1]
        key == kws[1]
    IN
    IF \E j \in 1..Len(key) : key[j] \notin DOMAIN c.series_dict
      THEN [exc |-> "KeyError", built |-> FALSE, key |-> kws]
    ELSE IF ~DictHas(self, kws)
      THEN [exc |-> "KeyError", built |-> TRUE, key |-> kws]
    ELSE IF ~PyInRange(DictGet(self, kws), idx - c.lengths[key_idx + 1])
      THEN [exc |-> "IndexError", built |-> TRUE, key |-> kws]
    ELSE
      [exc |-> None, built |-> TRUE, key |-> kws, key_idx |-> key_idx,
       stroll |-> StridedRolling([j \in 1..Len(key) |-> c.series_dict[key[j]]],
                                 kws[2], kws[3], c.window_idx, c.approve_sparsity),
       feature |-> PyIndex(DictGet(self, kws), idx - c.lengths[key_idx + 1])]

\* _executor(idx): resolve through the global, apply the function
_executor(global_func, self, idx) ==
  LET r == get_stroll_function(global_func, self, idx) IN
  IF r.exc # None THEN r
  ELSE IF apply_raises(r.stroll, r.feature.function)
    THEN [exc |-> "Exception", built |-> TRUE, key |-> r.key]
  ELSE [exc |-> None, built |-> TRUE, key |-> r.key,
        table |-> apply_func(r.stroll, r.feature.series_name, r.feature.function)]

(* ---------------- pd.concat(axis=1, join="outer") ---------------- *)
HasDuplicates(index) ==
  \E i, j \in 1..Len(index) : i # j /\ index[i] = index[j]

RECURSIVE SortedSeq(_)
SortedSeq(S) ==
  IF S = {} THEN <<>>
  ELSE LET m == CHOOSE x \in S : \A y \in S : x <= y
       IN <<m>> \o SortedSeq(S \ {m})

Column(table) ==
  [series_name |-> table.series_name, function |-> table.function,
   window |-> table.window, stride |-> table.stride,
   notna |-> Range(table.index)]

\* a variant that joins on the intersection of the indexes (join="inner")
concat_inner(tables) ==
  IF tables = <<>> THEN [exc |-> "ValueError"]
  ELSE IF \A i \in 1..Len(tables) : tables[i].index = tables[1].index
    THEN [exc |-> None, index |-> tables[1].index,
          columns |-> [i \in 1..Len(tables) |-> Column(tables[i])]]
  ELSE IF \E i \in 1..Len(tables) : HasDuplicates(tables[i].index)
    THEN [exc |-> "InvalidIndexError"]
  ELSE
    LET common == { t \in Range(tables[1].index) :
                      \A i \in 1..Len(tables) : t \in Range(tables[i].index) }
    IN [exc |-> None, index |-> SortedSeq(common),
        columns |-> [i \in 1..Len(tables) |->
                       [Column(tables[i]) EXCEPT !.notna = common]]]

concat_outer(tables) ==
  IF tables = <<>> THEN [exc |-> "ValueError"]
  ELSE IF \A i \in 1..Len(tables) : tables[i].index = tables[1].index
    THEN [exc |-> None, index |-> tables[1].index,
          columns |-> [i \in 1..Len(tables) |-> Column(tables[i])]]
  ELSE IF \E i \in 1..Len(tables) : HasDuplicates(tables[i].index)
    THEN [exc |-> "InvalidIndexError"]
  ELSE [exc |-> None,
        index |-> SortedSeq(UNION { Range(tables[i].index) : i \in 1..Len(tables) }),
        columns |-> [i \in 1..Len(tables) |-> Column(tables[i])]]

(* ---------------- arguments of add ---------------- *)
KeyA == CHOOSE k \in DescriptorKeys : Len(k.series_name) = 1

KeyAB == CHOOSE k \in DescriptorKeys : Len(k.series_name) = 2

FD(k, f) == FeatureDescriptor(k.series_name, k.window, k.stride, f)

\* other FeatureCollection objects, each built by its constructor
OtherCollections ==
  { FeatureCollection(<<FD(KeyA, "f")>>),
    FeatureCollection(<<FD(KeyAB, "g"), FD(KeyA, "f")>>),
    FeatureCollection(<<FD(KeyAB, "f"), FD(KeyA, "f"), FD(KeyAB, "g")>>) }

Items == FeatureDescriptors \cup MFDs \cup OtherCollections \cup OtherObjects

ItemLists == UNION { [1..n -> Items] : n \in 0..MaxItems }

AddInputs == Items \cup { [type |-> "list", items |-> l] : l \in ItemLists }

\* the descriptors an item stands for
ItemDescriptors(item) ==
  CASE item.type = "FeatureDescriptor" -> <<item>>
    [] item.type = "MultipleFeatureDescriptors" -> item.feature_descriptions
    [] item.type = "FeatureCollection" ->
         flatten(DictValues(item._feature_desc_dict))
    [] OTHER -> <<>>

\* the descriptors of the items that precede the first unsupported item
RECURSIVE Expand(_)
Expand(items) ==
  IF items = <<>> THEN <<>>
  ELSE IF Head(items).type \notin SupportedTypes THEN <<>>
  ELSE ItemDescriptors(Head(items)) \o Expand(Tail(items))

(* ---------------- arguments of calculate ---------------- *)
WindowIdxChoices == {"begin", "middle", "end"}

\* n_jobs is Optional[int]: <<>> is None, <<n>> is the integer n
NJobsChoices == {<<>>, <<0>>, <<1>>, <<2>>}

\* a variant that runs in the calling process for n_jobs = 1 only
IsSequentialOne(n_jobs) == n_jobs = <<1>>

IsSequential(n_jobs) == n_jobs \in {<<0>>, <<1>>}

\* ProcessPool(nodes=n_jobs): pathos takes cpu_count() for nodes=None
PoolNodes(n_jobs) == IF n_jobs = <<>> THEN CpuCount ELSE n_jobs[1]

(* ---------------- state ---------------- *)
VARIABLES
  feature_desc_dict,   \* self._feature_desc_dict
  get_stroll_func,     \* the module-global closure, Undefined before the first call
  pc,                  \* "open", "executing" while calculate runs its tasks,
                       \* "returned" when an operation hands back its outcome
  call,                \* the arguments of the calculate call in flight, with
                       \* the task count and the registry at its start
  results,             \* calculated_feature_list as far as it is built
  order,               \* flat indices of the finished tasks, in finishing order
  strolls,             \* keys of the StridedRolling objects built by the call
  pool,                \* the ProcessPool of the call, NoPool without one
  ret,                 \* outcome of the operation that just returned
  added                \* every descriptor added so far, in order

vars == <<feature_desc_dict, get_stroll_func, pc, call, results, order,
          strolls, pool, ret, added>>

NoCall == [op |-> None]

NoRet == [op |-> None]

\* the global name is not bound before the first calculate call
Undefined == [undefined |-> TRUE]

NoPool == [state |-> "none"]

Init ==
  /\ feature_desc_dict = <<>>
  /\ get_stroll_func = Undefined
  /\ pc = "open"
  /\ call = NoCall
  /\ results = <<>>
  /\ order = <<>>
  /\ strolls = <<>>
  /\ pool = NoPool
  /\ ret = NoRet
  /\ added = <<>>

(* ---------------- operations ---------------- *)
Add(features) ==
  /\ pc = "open"
  /\ LET r == add(feature_desc_dict, to_list(features)) IN
       /\ _get_stroll_feat_length(r.dict) <= MaxTasks
       /\ feature_desc_dict' = r.dict
       /\ ret' = [op |-> "add", exc |-> r.exc,
                  types |-> [i \in 1..Len(to_list(features)) |->
                               to_list(features)[i].type],
                  before |-> feature_desc_dict]
       /\ added' = added \o Expand(to_list(features))
  /\ pc' = "returned"
  /\ UNCHANGED <<get_stroll_func, call, results, order, strolls, pool>>

GetRequiredSeries ==
  /\ pc = "open"
  /\ ret' = [op |-> "get_required_series",
             value |-> get_required_series(feature_desc_dict)]
  /\ pc' = "returned"
  /\ UNCHANGED <<feature_desc_dict, get_stroll_func, call, results, order,
                 strolls, pool, added>>

\* calculate up to the dispatch of the tasks: the assertions on the input,
\* the series_dict, the global closure, the index range and the pool
Calculate(data, return_df, window_idx, approve_sparsity, n_jobs) ==
  /\ pc = "open"
  /\ LET b == BuildSeriesDict(feature_desc_dict, data, <<>>)
         args == [op |-> "calculate", data |-> data, return_df |-> return_df,
                  window_idx |-> window_idx,
                  approve_sparsity |-> approve_sparsity, n_jobs |-> n_jobs,
                  n_idx |-> _get_stroll_feat_length(feature_desc_dict),
                  registry |-> feature_desc_dict]
     IN
     IF b.exc # None
       THEN /\ ret' = [op |-> "calculate", exc |-> b.exc, call |-> args,
                       order |-> <<>>, strolls |-> <<>>]
            /\ pc' = "returned"
            /\ UNCHANGED <<get_stroll_func, call, pool>>
       ELSE /\ get_stroll_func' =
                 _stroll_feat_generator(feature_desc_dict, b.series_dict,
                                        window_idx, approve_sparsity)
            /\ pc' = "executing"
            /\ call' = args
            /\ pool' = IF IsSequential(n_jobs) THEN NoPool
                       ELSE [state |-> "open", nodes |-> PoolNodes(n_jobs)]
            /\ ret' = NoRet
  /\ UNCHANGED <<feature_desc_dict, results, order, strolls, added>>

\* a variant that isolates a failing task: an empty table stands for its
\* result and the call goes on
RunTaskIsolated(idx) ==
  LET r == _executor(get_stroll_func, feature_desc_dict, idx) IN
  /\ results' = Append(results,
                       IF r.exc # None
                         THEN [series_name |-> <<>>, function |-> None,
                               window |-> 0, stride |-> 0, index |-> <<>>]
                         ELSE r.table)
  /\ order' = Append(order, idx)
  /\ strolls' = IF r.built THEN Append(strolls, r.key) ELSE strolls
  /\ UNCHANGED <<pc, call, ret>>

\* the task idx runs to its end; an exception it raises ends the call
RunTask(idx) ==
  LET r == _executor(get_stroll_func, feature_desc_dict, idx)
      built == IF r.built THEN Append(strolls, r.key) ELSE strolls
  IN
  IF r.exc # None
    THEN /\ ret' = [op |-> "calculate", exc |-> r.exc, call |-> call,
                    order |-> Append(order, idx), strolls |-> built]
         /\ pc' = "returned"
         /\ call' = NoCall
         /\ results' = <<>>
         /\ order' = <<>>
         /\ strolls' = <<>>
    ELSE /\ results' = Append(results, r.table)
         /\ order' = Append(order, idx)
         /\ strolls' = built
         /\ UNCHANGED <<pc, call, ret>>

\* n_jobs in [0, 1]: the list comprehension runs the next index
ExecuteSequential ==
  /\ pc = "executing"
  /\ IsSequential(call.n_jobs)
  /\ Len(order) < call.n_idx
  /\ RunTask(Len(order))
  /\ UNCHANGED <<feature_desc_dict, get_stroll_func, pool, added>>

\* pool.uimap: the indices are handed out in order to pool.nodes workers and
\* a result is yielded as soon as its task finishes
WorkerComplete(idx) ==
  /\ pc = "executing"
  /\ ~IsSequential(call.n_jobs)
  /\ idx \in 0..(call.n_idx - 1)
  /\ idx \notin Range(order)
  /\ Cardinality({ j \in 0..(idx - 1) : j \notin Range(order) }) < pool.nodes
  /\ RunTask(idx)
  /\ UNCHANGED <<feature_desc_dict, get_stroll_func, pool, added>>

\* every index is done: close, join and clear the pool, then merge the
\* tables or hand back the list
Finish ==
  /\ pc = "executing"
  /\ Len(order) = call.n_idx
  /\ LET df == concat_outer(results) IN
       ret' = IF call.return_df
                THEN IF df.exc # None
                       THEN [op |-> "calculate", exc |-> df.exc, call |-> call,
                             order |-> order, strolls |-> strolls]
                       ELSE [op |-> "calculate", exc |-> None, call |-> call,
                             order |-> order, strolls |-> strolls,
                             kind |-> "df", value |-> df]
                ELSE [op |-> "calculate", exc |-> None, call |-> call,
                      order |-> order, strolls |-> strolls,
                      kind |-> "list", value |-> results]
  /\ pool' = NoPool
  /\ pc' = "returned"
  /\ call' = NoCall
  /\ results' = <<>>
  /\ order' = <<>>
  /\ strolls' = <<>>
  /\ UNCHANGED <<feature_desc_dict, get_stroll_func, added>>

\* the caller takes the outcome; the collection is open for the next call
Return ==
  /\ pc = "returned"
  /\ pc' = "open"
  /\ ret' = NoRet
  /\ UNCHANGED <<feature_desc_dict, get_stroll_func, call, results, order,
                 strolls, pool, added>>

\* the collection is filled one object at a time; calculate is called with
\* the defaults window_idx='end' and approve_sparsity=False
Next ==
  \/ \E features \in Items : Add(features)
  \/ GetRequiredSeries
  \/ \E data \in DataChoices, return_df \in BOOLEAN, n_jobs \in NJobsChoices :
       Calculate(data, return_df, "end", FALSE, n_jobs)
  \/ ExecuteSequential
  \/ \E idx \in 0..(MaxTasks - 1) : WorkerComplete(idx)
  \/ Finish
  \/ Return

Spec == Init /\ [][Next]_vars

\* the registry alone: add with single objects and with lists, and the query
NextRegistry ==
  \/ \E features \in AddInputs : Add(features)
  \/ GetRequiredSeries
  \/ Return

SpecRegistry == Init /\ [][NextRegistry]_vars

(* ---------------- calls with failing tasks ---------------- *)
\* descriptors of a well-behaved and of a raising function
FailureItems == { FD(k, fn) : k \in DescriptorKeys, fn \in {"f"} \cup RaisingFunctions }

\* every series given; b left out; b left out and a out of order
FailureDataChoices ==
  { <<Series("a", "strict"), Series("b", "strict")>>,
    <<Series("a", "strict")>>,
    <<Series("a", "unsorted")>> }

NextFailure ==
  \/ \E features \in FailureItems : Add(features)
  \/ \E data \in FailureDataChoices, return_df \in BOOLEAN,
        n_jobs \in {<<1>>, <<2>>} :
       Calculate(data, return_df, "end", FALSE, n_jobs)
  \/ ExecuteSequential
  \/ \E idx \in 0..(MaxTasks - 1) : WorkerComplete(idx)
  \/ Finish
  \/ Return

SpecFailure == Init /\ [][NextFailure]_vars

(* ---------------- add from a second thread ---------------- *)
\* another thread calls add while calculate runs its tasks: add takes no
\* lock and does not look at what the collection is doing
ConcurrentAdd(features) ==
  /\ pc = "executing"
  /\ LET r == add(feature_desc_dict, to_list(features)) IN
       /\ _get_stroll_feat_length(r.dict) <= MaxTasks
       /\ feature_desc_dict' = r.dict
       /\ added' = added \o Expand(to_list(features))
  /\ UNCHANGED <<get_stroll_func, pc, call, results, order, strolls, pool, ret>>

\* calculate runs its tasks in the calling thread (n_jobs 0 or 1), where
\* get_stroll_function reads the registry of the one collection object
NextConcurrentAdd ==
  \/ \E features \in FeatureDescriptors : Add(features)
  \/ \E features \in FeatureDescriptors : ConcurrentAdd(features)
  \/ \E return_df \in BOOLEAN, n_jobs \in {<<0>>, <<1>>} :
       Calculate(<<Series("a", "strict"), Series("b", "strict")>>,
                 return_df, "end", FALSE, n_jobs)
  \/ ExecuteSequential
  \/ Finish
  \/ Return

SpecConcurrentAdd == Init /\ [][NextConcurrentAdd]_vars

(* ---------------- calls on series with gaps ---------------- *)
\* a uniform series a, and a series a with an interior sample dropped
SparsityDataChoices ==
  { <<Series("a", "strict"), Series("b", "strict")>>,
    <<Series("a", "gaps"), Series("b", "strict")>> }

NextSparsity ==
  \/ \E features \in FeatureDescriptors : Add(features)
  \/ \E data \in SparsityDataChoices, approve_sparsity \in BOOLEAN,
        n_jobs \in {<<1>>, <<2>>} :
       Calculate(data, FALSE, "end", approve_sparsity, n_jobs)
  \/ ExecuteSequential
  \/ \E idx \in 0..(MaxTasks - 1) : WorkerComplete(idx)
  \/ Finish
  \/ Return

SpecSparsity == Init /\ [][NextSparsity]_vars

(* ---------------- the segmenter on its own ---------------- *)
\* a uniformly sampled series of n samples
UniformSeries(name, n) ==
  [name |-> name, index |-> [i \in 1..n |-> 2 * (i - 1)], is_datetime |-> TRUE]

WindowInputs ==
  [op : {"apply_func"}, n : 0..(2 * MaxWindow), window : 1..MaxWindow,
   stride : 1..MaxWindow, window_idx : WindowIdxChoices]

InitWindows ==
  /\ feature_desc_dict = <<>>
  /\ get_stroll_func = Undefined
  /\ pc = "open"
  /\ call \in WindowInputs
  /\ results = <<>>
  /\ order = <<>>
  /\ strolls = <<>>
  /\ pool = NoPool
  /\ ret = NoRet
  /\ added = <<>>

\* StridedRolling(...).apply_func(f) on one series
ApplyFunc ==
  /\ pc = "open"
  /\ call.op = "apply_func"
  /\ results' = <<apply_func(StridedRolling(<<UniformSeries("a", call.n)>>,
                                            call.window, call.stride,
                                            call.window_idx, FALSE),
                             <<"a">>, "f")>>
  /\ pc' = "returned"
  /\ UNCHANGED <<feature_desc_dict, get_stroll_func, call, order, strolls,
                 pool, ret, added>>

SpecWindows == InitWindows /\ [][ApplyFunc]_vars

(* ---------------- calls with each window_idx ---------------- *)
NextWindowIdx ==
  \/ \E features \in FeatureDescriptors : Add(features)
  \/ \E window_idx \in WindowIdxChoices, n_jobs \in {<<1>>, <<2>>} :
       Calculate(<<Series("a", "strict"), Series("b", "strict")>>,
                 FALSE, window_idx, FALSE, n_jobs)
  \/ ExecuteSequential
  \/ \E idx \in 0..(MaxTasks - 1) : WorkerComplete(idx)
  \/ Finish
  \/ Return

SpecWindowIdx == Init /\ [][NextWindowIdx]_vars

(* ---------------- process_chunks_multithreaded ---------------- *)
\* a chunk list: chunk i is told apart by its position, and the pipeline
\* raises on the chunks marked so
ChunkLists ==
  UNION { { [i \in 1..n |-> [id |-> i, raises |-> bad[i]]] :
              bad \in [1..n -> BOOLEAN] } : n \in 0..MaxChunks }

\* pd.DataFrame()
EmptyDataFrame == [empty |-> TRUE]

\* the local _executor(chunk): the pipeline's output, or an empty table when
\* the pipeline raises an Exception
chunk_executor(chunk) ==
  IF chunk.raises THEN EmptyDataFrame ELSE [processed |-> chunk.id]

\* min(n_jobs, len(df_dict_list)), n_jobs being cpu_count() when None
ChunkPoolNodes(n_jobs, df_dict_list) ==
  LET n == IF n_jobs = <<>> THEN CpuCount ELSE n_jobs[1] IN
  IF n <= Len(df_dict_list) THEN n ELSE Len(df_dict_list)

\* the call up to pool.imap; a pool of less than one process is refused by
\* the pool's constructor with a ValueError
ProcessChunks(df_dict_list, n_jobs) ==
  /\ pc = "open"
  /\ LET args == [op |-> "process_chunks", df_dict_list |-> df_dict_list,
                  n_jobs |-> n_jobs]
     IN
     IF ChunkPoolNodes(n_jobs, df_dict_list) < 1
       THEN /\ ret' = [op |-> "process_chunks", exc |-> "ValueError",
                       call |-> args]
            /\ pc' = "returned"
            /\ UNCHANGED <<call, pool>>
       ELSE /\ call' = args
            /\ pool' = [state |-> "open",
                        nodes |-> ChunkPoolNodes(n_jobs, df_dict_list)]
            /\ pc' = "chunks"
            /\ ret' = NoRet
  /\ UNCHANGED <<feature_desc_dict, get_stroll_func, results, order, strolls,
                 added>>

\* a worker finishes the chunk at the 0-based position idx
ChunkComplete(idx) ==
  /\ pc = "chunks"
  /\ idx \in 0..(Len(call.df_dict_list) - 1)
  /\ idx \notin Range(order)
  /\ Cardinality({ j \in 0..(idx - 1) : j \notin Range(order) }) < pool.nodes
  /\ order' = Append(order, idx)
  /\ UNCHANGED <<feature_desc_dict, get_stroll_func, pc, call, results,
                 strolls, pool, ret, added>>

\* pool.imap yields in input order: the loop appends the next output once
\* the chunk at that position is finished
YieldChunk ==
  /\ pc = "chunks"
  /\ Len(results) < Len(call.df_dict_list)
  /\ Len(results) \in Range(order)
  /\ results' = Append(results,
                       chunk_executor(call.df_dict_list[Len(results) + 1]))
  /\ UNCHANGED <<feature_desc_dict, get_stroll_func, pc, call, order, strolls,
                 pool, ret, added>>

\* the loop is over: close, join and clear the pool, return processed_out
FinishChunks ==
  /\ pc = "chunks"
  /\ Len(results) = Len(call.df_dict_list)
  /\ ret' = [op |-> "process_chunks", exc |-> None, call |-> call,
             order |-> order, value |-> results]
  /\ pool' = NoPool
  /\ pc' = "returned"
  /\ call' = NoCall
  /\ results' = <<>>
  /\ order' = <<>>
  /\ UNCHANGED <<feature_desc_dict, get_stroll_func, strolls, added>>

NextChunks ==
  \/ \E df_dict_list \in ChunkLists, n_jobs \in {<<>>, <<1>>, <<2>>} :
       ProcessChunks(df_dict_list, n_jobs)
  \/ \E idx \in 0..(MaxChunks - 1) : ChunkComplete(idx)
  \/ YieldChunk
  \/ FinishChunks

SpecChunks == Init /\ [][NextChunks]_vars

(* ---------------- collections added to collections ---------------- *)
\* a second collection object, other, is held next to the receiving one
InitCollections ==
  /\ feature_desc_dict = <<>>
  /\ get_stroll_func = Undefined
  /\ pc = "open"
  /\ call \in { [op |-> "other", collection |-> c] : c \in OtherCollections }
  /\ results = <<>>
  /\ order = <<>>
  /\ strolls = <<>>
  /\ pool = NoPool
  /\ ret = NoRet
  /\ added = <<>>

\* self as an object that can be handed to add
Self == [type |-> "FeatureCollection", _feature_desc_dict |-> feature_desc_dict]

\* fc.add(other)
AddOther == Add(call.collection)

\* fc.add(fc)
AddSelf == Add(Self)

NextCollections ==
  \/ \E features \in FeatureDescriptors : Add(features)
  \/ AddOther
  \/ AddSelf
  \/ Return

SpecCollections == InitCollections /\ [][NextCollections]_vars

(* ---------------- calculate from a second thread ---------------- *)
\* what the second thread passes: the series of the first call, or a series
\* a with other timestamps
OverlapDataChoices ==
  { <<Series("a", "strict"), Series("b", "strict")>>,
    <<Series("a", "dup"), Series("b", "strict")>> }

\* between two tasks of the call in flight a second thread runs a whole
\* sequential calculate call on the same collection. Its tasks meet the
\* closure it has just bound; what it leaves to the process is the module
\* global get_stroll_func, rebound to that closure.
OverlappingCalculate(data, window_idx) ==
  /\ pc = "executing"
  /\ LET b == BuildSeriesDict(feature_desc_dict, data, <<>>) IN
       /\ b.exc = None
       /\ get_stroll_func' =
            _stroll_feat_generator(feature_desc_dict, b.series_dict,
                                   window_idx, FALSE)
  /\ UNCHANGED <<feature_desc_dict, pc, call, results, order, strolls, pool,
                 ret, added>>

NextOverlap ==
  \/ \E features \in FeatureDescriptors : Add(features)
  \/ \E n_jobs \in {<<0>>, <<1>>} :
       Calculate(<<Series("a", "strict"), Series("b", "strict")>>,
                 FALSE, "end", FALSE, n_jobs)
  \/ \E data \in OverlapDataChoices, window_idx \in {"begin", "end"} :
       OverlappingCalculate(data, window_idx)
  \/ ExecuteSequential
  \/ Finish
  \/ Return

SpecOverlap == Init /\ [][NextOverlap]_vars

(* ====================== properties ====================== *)
CalcReturned == pc = "returned" /\ ret.op = "calculate"

CalcSucceeded == CalcReturned /\ ret.exc = None

\* the table the task with flat index idx produces in the current call
TaskTable(idx) == _executor(get_stroll_func, feature_desc_dict, idx).table

\* the concatenation, in key iteration order, of the per-key descriptor
\* lists, each descriptor paired with its Collection Key
FlatTasks(self) ==
  flatten([i \in 1..Len(self) |->
             [j \in 1..Len(self[i].v) |-> <<self[i].k, self[i].v[j]>>]])

(* C1: in parallel mode the list returned by calculate(return_df=False) has
   at position i the result of the task with flat index i, whatever the
   order in which the workers finish. *)
C1_ListInFlatIndexOrder ==
  (CalcSucceeded /\ ~IsSequential(ret.call.n_jobs) /\ ret.kind = "list")
    => \A i \in 0..(ret.call.n_idx - 1) : ret.value[i + 1] = TaskTable(i)

\* what the sequential branch (n_jobs in [0, 1]) returns for the current
\* registry and the series of the current call
SequentialList ==
  [i \in 1..ret.call.n_idx |-> TaskTable(i - 1)]

(* C2: a call with n_jobs > 1 (or unset) returns what the call with n_jobs=1
   returns on the same registry and data: the same list in the same order,
   or the same merged table with the same column order. *)
C2_ParallelEqualsSequential ==
  (CalcSucceeded /\ ~IsSequential(ret.call.n_jobs))
    => IF ret.kind = "list"
         THEN ret.value = SequentialList
         ELSE ret.value = concat_outer(SequentialList)

(* C3: while a call executes, every flat index i below the task count
   resolves to the Collection Key and the descriptor at position i of the
   concatenation of the per-key descriptor lists; the only exception a
   resolution can raise is the KeyError of a series missing from the data,
   never an IndexError. *)
C3_FlatIndexResolution ==
  (pc = "executing") =>
    /\ call.n_idx = Len(FlatTasks(feature_desc_dict))
    /\ \A idx \in 0..(call.n_idx - 1) :
         LET r == get_stroll_function(get_stroll_func, feature_desc_dict, idx) IN
           /\ r.exc \in {None, "KeyError"}
           /\ r.key = FlatTasks(feature_desc_dict)[idx + 1][1]
           /\ (r.exc = None =>
                 r.feature = FlatTasks(feature_desc_dict)[idx + 1][2])

\* a call over two keys of which the second holds two different descriptors,
\* all of them resolved
C3_Witness ==
  /\ pc = "executing"
  /\ Len(feature_desc_dict) = 2
  /\ Len(feature_desc_dict[2].v) = 2
  /\ feature_desc_dict[2].v[1] # feature_desc_dict[2].v[2]
  /\ Len(order) = call.n_idx
  /\ \A idx \in 0..(call.n_idx - 1) :
       get_stroll_function(get_stroll_func, feature_desc_dict, idx).exc = None

(* C4: one calculate call builds exactly one StridedRolling per Collection
   Key: no key is built twice, and a call that succeeds has built as many
   as the registry has keys. *)
C4_OneSegmenterPerKey ==
  /\ \A i, j \in 1..Len(strolls) : strolls[i] = strolls[j] => i = j
  /\ CalcSucceeded => Len(ret.strolls) = Len(feature_desc_dict)

(* C5: add raises TypeError exactly when some item handed to it is neither
   a FeatureDescriptor, a MultipleFeatureDescriptors nor a
   FeatureCollection; it raises nothing else. *)
C5_AddTypeError ==
  (pc = "returned" /\ ret.op = "add") =>
    /\ ret.exc \in {None, "TypeError"}
    /\ (ret.exc = "TypeError") <=>
         (\E i \in 1..Len(ret.types) : ret.types[i] \notin SupportedTypes)

\* add was handed a list with a bare function and raised
C5_Witness ==
  /\ pc = "returned"
  /\ ret.op = "add"
  /\ ret.exc = "TypeError"
  /\ Len(ret.types) = 2
  /\ "function" \in Range(ret.types)

(* C6: an add that fails with a TypeError leaves the registry as it was
   before the call. *)
C6_NoPartialMutation ==
  (pc = "returned" /\ ret.op = "add" /\ ret.exc = "TypeError")
    => feature_desc_dict = ret.before

\* the series names that occur in the series-key tuple of some key
KeyNames(self) ==
  { n \in SeriesNames :
      \E i \in 1..Len(self) : \E j \in 1..Len(self[i].k[1]) : self[i].k[1][j] = n }

(* C7: get_required_series returns exactly the series names that occur in
   some Collection Key, each once, and the call changes nothing of the
   collection or of the process. *)
C7_RequiredSeries ==
  [][(pc = "open" /\ pc' = "returned" /\ ret'.op = "get_required_series") =>
       /\ Range(ret'.value) = KeyNames(feature_desc_dict)
       /\ Len(ret'.value) = Cardinality(KeyNames(feature_desc_dict))
       /\ UNCHANGED <<feature_desc_dict, get_stroll_func, call, results,
                      order, strolls, pool, added>>]_vars

\* the query answered with two names for a registry with a two-series key
C7_Witness ==
  /\ pc = "returned"
  /\ ret.op = "get_required_series"
  /\ Len(ret.value) = 2
  /\ \E i \in 1..Len(feature_desc_dict) : Len(feature_desc_dict[i].k[1]) = 2
  /\ \E i \in 1..Len(feature_desc_dict) : Len(feature_desc_dict[i].k[1]) = 1

(* C8: descriptors are never deduplicated: the task count of a calculate
   call, the length of the list it returns and the number of columns of
   the table it returns equal the number of descriptors added so far,
   counted with multiplicity. *)
C8_NoDeduplication ==
  /\ (pc = "executing") => call.n_idx = Len(added)
  /\ CalcSucceeded =>
       /\ ret.call.n_idx = Len(added)
       /\ ret.kind = "list" => Len(ret.value) = Len(added)
       /\ ret.kind = "df" => Len(ret.value.columns) = Len(added)

\* the same descriptor was added twice and the call returned two tables
C8_Witness ==
  /\ CalcSucceeded
  /\ ret.kind = "list"
  /\ Len(added) = 2
  /\ added[1] = added[2]
  /\ Len(ret.value) = 2

InvalidInput(data) ==
  \E i \in 1..Len(data) :
    ~data[i].is_datetime \/ ~IsStrictlyIncreasing(data[i].index)

(* C9: an input series whose timestamps are not strictly increasing, or
   whose index is not a time index, makes calculate fail before any task
   executes. *)
C9_RejectsInvalidInput ==
  /\ (pc = "executing" /\ order # <<>>) => ~InvalidInput(call.data)
  /\ (CalcReturned /\ InvalidInput(ret.call.data)) =>
       (ret.exc = "AssertionError" /\ ret.order = <<>>)

(* C10: the merged table is the outer union of the per-task tables: its
   index is the union of their indexes and the column of a task has a
   value exactly at the timestamps of that task's windows; the list form
   holds every task's table as the task produced it. *)
C10_OuterUnion ==
  CalcSucceeded =>
    IF ret.kind = "df"
      THEN /\ Range(ret.value.index) =
                UNION { Range(TaskTable(i).index) : i \in 0..(ret.call.n_idx - 1) }
           /\ Len(ret.value.columns) = Len(ret.order)
           /\ \A j \in 1..Len(ret.order) :
                ret.value.columns[j].notna = Range(TaskTable(ret.order[j]).index)
      ELSE \A j \in 1..Len(ret.order) : ret.value[j] = TaskTable(ret.order[j])

\* a merged table in which some column has a missing cell and some has none
C10_Witness ==
  /\ CalcSucceeded
  /\ ret.kind = "df"
  /\ \E j \in 1..Len(ret.value.columns) :
       ret.value.columns[j].notna # Range(ret.value.index)
  /\ \E j \in 1..Len(ret.value.columns) :
       ret.value.columns[j].notna = Range(ret.value.index)

\* the task idx of the current or the returned call raises
TaskRaises(idx) == _executor(get_stroll_func, feature_desc_dict, idx).exc # None

(* C11: a task that raises ends the calculate call: no call goes on after a
   failed task, the exception of the task is the outcome of the call, which
   carries no list and no table, and in sequential mode the tasks executed
   are exactly 0..k with k the failing index, so none above k has run. *)
C11_ExceptionPropagates ==
  /\ pc = "executing" => \A j \in 1..Len(order) : ~TaskRaises(order[j])
  /\ (CalcReturned /\ \E j \in 1..Len(ret.order) : TaskRaises(ret.order[j])) =>
       LET k == ret.order[Len(ret.order)] IN
       /\ TaskRaises(k)
       /\ ret.exc = _executor(get_stroll_func, feature_desc_dict, k).exc
       /\ "value" \notin DOMAIN ret
       /\ ret.call.n_jobs \in {<<0>>, <<1>>} =>
            ret.order = [j \in 1..(k + 1) |-> j - 1]

\* a sequential call ended by a raising function with tasks left unexecuted
C11_Witness ==
  /\ CalcReturned
  /\ ret.call.n_jobs = <<1>>
  /\ ret.exc = "Exception"
  /\ Len(ret.order) >= 2
  /\ Len(ret.order) < ret.call.n_idx

(* C12: the worker pool of a parallel calculate call is closed, joined and
   cleared by the time calculate returns or raises, also when a task fails:
   outside a running call no pool is left. *)
C12_PoolReleased == pc # "executing" => pool = NoPool

Min(a, b) == IF a <= b THEN a ELSE b

(* C13: the worker pool of a parallel calculate call has
   min(requested workers, task count) workers, the requested number being
   cpu_count() when n_jobs is unset. *)
C13_PoolSizeMin ==
  (pc = "executing" /\ pool.state = "open") =>
    pool.nodes = Min(PoolNodes(call.n_jobs), call.n_idx)

(* C14: with n_jobs 0 or 1 a calculate call has no worker pool and its tasks
   finish in the order 0, 1, 2, ...; with any other n_jobs the call has a
   pool and every finished task is one index of 0..task_count-1, finished
   once; a call that succeeds has executed exactly that index range. *)
C14_SequentialOrPool ==
  /\ pc = "executing" =>
       IF call.n_jobs \in {<<0>>, <<1>>}
         THEN /\ pool = NoPool
              /\ order = [j \in 1..Len(order) |-> j - 1]
         ELSE /\ pool.state = "open"
              /\ Range(order) \subseteq 0..(call.n_idx - 1)
              /\ Cardinality(Range(order)) = Len(order)
  /\ CalcSucceeded =>
       /\ Range(ret.order) = 0..(ret.call.n_idx - 1)
       /\ Len(ret.order) = ret.call.n_idx

\* a call with n_jobs=0 that has finished its first two tasks
C14_Witness ==
  /\ pc = "executing"
  /\ call.n_jobs = <<0>>
  /\ Len(order) >= 2

(* C15: while a calculate call runs its tasks the registry is the registry
   the call started with, and every finished task has computed the
   descriptor that this registry holds at the task's flat index. *)
C15_RegistryReadOnly ==
  pc = "executing" =>
    /\ feature_desc_dict = call.registry
    /\ \A j \in 1..Len(order) :
         LET fd == FlatTasks(call.registry)[order[j] + 1][2] IN
         /\ results[j].function = fd.function
         /\ results[j].series_name = fd.series_name
         /\ results[j].window = fd.window
         /\ results[j].stride = fd.stride

(* C16: a calculate call leaves nothing behind but the registry: when it
   has returned the registry is the one the call started with, and outside
   a running call the process-wide get_stroll_func references no resolver,
   hence no retained input series. *)
C16_NothingSurvives ==
  /\ CalcReturned => feature_desc_dict = ret.call.registry
  /\ pc # "executing" => get_stroll_func = Undefined

\* data lacks a series the registry requires
MissingSeries(data, self) ==
  \E n \in Range(get_required_series(self)) :
    \A i \in 1..Len(data) : data[i].name # n

\* a series of data fails one of the two assertions of calculate
FailsAssertion(data) ==
  \E i \in 1..Len(data) :
    ~data[i].is_datetime \/ ~is_monotonic_increasing(data[i].index)

StrollOf(c, kws) ==
  StridedRolling([j \in 1..Len(kws[1]) |-> c.series_dict[kws[1][j]]],
                 kws[2], kws[3], c.window_idx, c.approve_sparsity)

\* the sparsity warnings of the returned call, one per warning construction
SparsityWarnings ==
  SelectSeq(ret.strolls, LAMBDA kws : sparsity_warning(StrollOf(get_stroll_func, kws)))

(* C18: a calculate call with approve_sparsity=False emits one sparsity
   warning for every key of the registry whose series have gaps, however
   many descriptors share the key, and none with approve_sparsity=True. *)
C18_OneWarningPerKey ==
  CalcSucceeded =>
    Len(SparsityWarnings) =
      IF ret.call.approve_sparsity THEN 0
      ELSE Cardinality({ kws \in Range(DictKeys(ret.call.registry)) :
                           \E j \in 1..Len(kws[1]) :
                             HasGaps(get_stroll_func.series_dict[kws[1][j]].index) })

Segmented == pc = "returned" /\ call.op = "apply_func"

\* consecutive reported timestamps lie one stride apart
StrideApart(index, stride) ==
  \A i \in 1..(Len(index) - 1) : index[i + 1] - index[i] = 2 * stride

\* the w-th window, which starts at sample (w - 1) * stride, ends inside n samples
FitsInside(w, n, window, stride) == (w - 1) * stride + window <= n

OffsetOf(window, window_idx) ==
  CASE window_idx = "begin" -> 0
    [] window_idx = "middle" -> window
    [] window_idx = "end" -> 2 * window

(* C20: every table of a calculate call has the windows of its descriptor,
   as many as with window_idx='begin' and with the same window starts, and
   reports each window at its first sample time plus 0, W/2 or W for
   'begin', 'middle' or 'end', the window_idx of the call. *)
C20_WindowIdx ==
  CalcSucceeded =>
    \A j \in 1..Len(ret.value) :
      LET t == ret.value[j]
          fd == FlatTasks(ret.call.registry)[ret.order[j] + 1][2]
          first == get_stroll_func.series_dict[fd.series_name[1]].index[1]
          begin == apply_func(StridedRolling(
                                [i \in 1..Len(fd.series_name) |->
                                   get_stroll_func.series_dict[fd.series_name[i]]],
                                fd.window, fd.stride, "begin", FALSE),
                              fd.series_name, fd.function)
      IN /\ t.function = fd.function
         /\ Len(t.index) = Len(begin.index)
         /\ \A i \in 1..Len(t.index) :
              t.index[i] = begin.index[i] + OffsetOf(fd.window, ret.call.window_idx)
         /\ Len(t.index) > 0 =>
              t.index[1] = first + OffsetOf(fd.window, ret.call.window_idx)

\* a call with window_idx='middle' over two keys with different windows
C20_Witness ==
  /\ CalcSucceeded
  /\ ret.call.window_idx = "middle"
  /\ \E i, j \in 1..Len(ret.value) :
       /\ ret.value[i].window # ret.value[j].window
       /\ Len(ret.value[i].index) > 0
       /\ Len(ret.value[j].index) > 0

ChunksReturned == pc = "returned" /\ ret.op = "process_chunks"

(* C21: process_chunks_multithreaded does not raise and returns a list as
   long as its input whose element i is the pipeline's output for chunk i,
   an empty table where the pipeline raised on chunk i, whatever the order
   in which the workers finished; the pool is released when it returns. *)
C21_ChunksIsolated ==
  ChunksReturned =>
    /\ ret.exc = None
    /\ pool = NoPool
    /\ Len(ret.value) = Len(ret.call.df_dict_list)
    /\ \A i \in 1..Len(ret.value) :
         ret.value[i] = IF ret.call.df_dict_list[i].raises
                          THEN [empty |-> TRUE]
                          ELSE [processed |-> i]

\* the (series_name, window, stride) of a descriptor
KeyOf(fd) == <<fd.series_name, fd.window, fd.stride>>

\* the position in added of the first descriptor with the key k
FirstAdded(k) ==
  CHOOSE n \in 1..Len(added) :
    /\ KeyOf(added[n]) = k
    /\ \A m \in 1..(n - 1) : KeyOf(added[m]) # k

(* C22: after any sequence of add operations the list stored under a
   Collection Key is the sequence of the added descriptors with that key, in
   the order of their addition, and the keys iterate in the order in which
   each was first added, every key once. *)
C22_InsertionOrder ==
  /\ \A i \in 1..Len(feature_desc_dict) :
       feature_desc_dict[i].v =
         SelectSeq(added, LAMBDA fd : KeyOf(fd) = feature_desc_dict[i].k)
  /\ Range(DictKeys(feature_desc_dict)) = { KeyOf(added[n]) : n \in 1..Len(added) }
  /\ \A i, j \in 1..Len(feature_desc_dict) :
       i < j => /\ feature_desc_dict[i].k # feature_desc_dict[j].k
                /\ FirstAdded(feature_desc_dict[i].k)
                     < FirstAdded(feature_desc_dict[j].k)

\* two descriptors of one key were added with a descriptor of another key
\* between them
C22_Witness ==
  /\ Len(added) >= 3
  /\ KeyOf(added[1]) = KeyOf(added[3])
  /\ KeyOf(added[1]) # KeyOf(added[2])
  /\ added[1] # added[3]
  /\ Len(feature_desc_dict) = 2

(* C26: after any sequence of successful or failed add operations every key
   of the registry maps to a non-empty list, and every descriptor in the
   list of a key has that key as its (series_name, window, stride). *)
C26_WellFormed ==
  \A i \in 1..Len(feature_desc_dict) :
    /\ feature_desc_dict[i].v # <<>>
    /\ \A n \in 1..Len(feature_desc_dict[i].v) :
         KeyOf(feature_desc_dict[i].v[n]) = feature_desc_dict[i].k

\* an add that raised TypeError after it had added a descriptor to a key
\* that held one already
C26_Witness ==
  /\ pc = "returned"
  /\ ret.op = "add"
  /\ ret.exc = "TypeError"
  /\ feature_desc_dict # ret.before
  /\ \E i \in 1..Len(feature_desc_dict) : Len(feature_desc_dict[i].v) >= 2

\* the list the registry d holds for the key k, empty without the key
ListOf(d, k) == IF DictHas(d, k) THEN DictGet(d, k) ELSE <<>>

\* the registry d after the descriptors of the registry o were appended to
\* it in o's flat order
Appended(d, o) ==
  LET keys == DictKeys(d) \o SelectSeq(DictKeys(o), LAMBDA k : ~DictHas(d, k))
  IN [i \in 1..Len(keys) |->
        [k |-> keys[i], v |-> ListOf(d, keys[i]) \o ListOf(o, keys[i])]]

\* add(other) on the receiving registry d: what it must leave behind
AddedCollection(d, other) ==
  /\ ret'.exc = None
  /\ feature_desc_dict' = Appended(d, other._feature_desc_dict)
  /\ call' = call
  /\ LET built == FeatureCollection(<<other>>)._feature_desc_dict IN
       /\ get_required_series(built) = get_required_series(other._feature_desc_dict)
       /\ FlatTasks(built) = FlatTasks(other._feature_desc_dict)

(* C23: add(other) with other a FeatureCollection appends the descriptors of
   other, in other's flat order, to the receiving registry and leaves other
   as it was; a collection built from other has other's required series and
   tasks; add(self) returns with every descriptor list doubled. *)
C23_AddCollection ==
  [][ /\ AddOther => AddedCollection(feature_desc_dict, call.collection)
      /\ AddSelf =>
           /\ AddedCollection(feature_desc_dict, Self)
           /\ DictKeys(feature_desc_dict') = DictKeys(feature_desc_dict)
           /\ \A i \in 1..Len(feature_desc_dict) :
                feature_desc_dict'[i].v
                  = feature_desc_dict[i].v \o feature_desc_dict[i].v ]_vars

\* a registry of two keys, one with two descriptors, returned by the add
\* of a collection
C23_Witness ==
  /\ pc = "returned"
  /\ ret.op = "add"
  /\ ret.types = <<"FeatureCollection">>
  /\ ret.before # <<>>
  /\ Len(feature_desc_dict) = 2
  /\ feature_desc_dict # ret.before
  /\ \E i \in 1..Len(feature_desc_dict) : Len(feature_desc_dict[i].v) >= 2

(* C24: the series table of a calculate call holds exactly the input series
   whose name get_required_series() lists, each under its name, and every
   Segmenter a task builds gets series of that table only, so none that no
   descriptor references. *)
C24_OnlyRequiredSeries ==
  pc = "executing" =>
    LET series_dict == get_stroll_func.series_dict
        required == Range(get_required_series(call.registry))
        given == { call.data[i].name : i \in 1..Len(call.data) }
    IN
    /\ DOMAIN series_dict = given \cap required
    /\ \A n \in DOMAIN series_dict :
         /\ series_dict[n].name = n
         /\ \E i \in 1..Len(call.data) : call.data[i] = series_dict[n]
    /\ \A idx \in 0..(call.n_idx - 1) :
         LET r == get_stroll_function(get_stroll_func, feature_desc_dict, idx) IN
         r.exc = None =>
           \A j \in 1..Len(r.stroll.data) :
             /\ r.stroll.data[j].name \in required
             /\ r.stroll.data[j] = series_dict[r.stroll.data[j].name]

\* a call that was given a series no descriptor references and has run a task
C24_Witness ==
  /\ pc = "executing"
  /\ order # <<>>
  /\ \E i \in 1..Len(call.data) :
       call.data[i].name \notin DOMAIN get_stroll_func.series_dict

\* the closure the call in flight has built from its registry and arguments
OwnClosure ==
  _stroll_feat_generator(call.registry,
                         BuildSeriesDict(call.registry, call.data, <<>>).series_dict,
                         call.window_idx, call.approve_sparsity)

(* C25: every task of a calculate call is resolved against the task table
   of its own call: while the call runs, each finished task has produced
   the table that the call's own closure yields for the task's flat index,
   whatever another thread's calculate call did in between. *)
C25_OwnTaskTable ==
  pc = "executing" =>
    \A j \in 1..Len(order) :
      results[j] = _executor(OwnClosure, call.registry, order[j]).table

====
